---- MODULE Spec2Model ----
(***************************************************************************)
(* State-machine model of the S&P 500 GRU forecasting application:         *)
(*   DataLoader        (data-loader.js, src/unnamed/part_001)              *)
(*   GRUModel          (gru.js, two variants: src/unnamed/part_000 = "A",  *)
(*                      src/unnamed/part_002:508-659 = "B")                *)
(*   StockPredictorApp (app.js: src/unnamed/part_003, part_002, src/app.js)*)
(*                                                                         *)
(* JavaScript numbers are modelled as exact rationals <<n, d>> (d > 0,     *)
(* reduced); NaN is <<0, 0>>.  A nullable field is an option: <<>> is      *)
(* null, <<x>> holds x.  The tf.js regressor (fit / predict / evaluate)    *)
(* is a black box whose outcomes are chosen nondeterministically.          *)
(***************************************************************************)
EXTENDS Integers, Sequences, FiniteSets, TLC

(***************************************************************************)
(* Bounds of the model (not program constants).                            *)
(***************************************************************************)
MaxOps == 3
MaxEpochs == 1

(***************************************************************************)
(* Program constants.                                                      *)
(***************************************************************************)
MinPoints == 65
DefaultWindowSize == 60
DefaultHorizon == 5

(***************************************************************************)
(* Options (nullable fields).                                              *)
(***************************************************************************)
Null == <<>>
Some(x) == <<x>>
IsNull(o) == o = <<>>
Val(o) == o[1]

(***************************************************************************)
(* JavaScript numbers as exact rationals.                                  *)
(***************************************************************************)
Abs(i) == IF i < 0 THEN -i ELSE i

RECURSIVE GCD(_, _)
GCD(a, b) == IF b = 0 THEN a ELSE GCD(b, a % b)

NaN == <<0, 0>>
IsNaN(x) == x[2] = 0

Norm(n, d) ==
    IF d = 0 THEN NaN
    ELSE LET g == GCD(Abs(n), Abs(d))
             s == IF d < 0 THEN -1 ELSE 1
         IN  <<(s * n) \div g, (s * d) \div g>>

Int2Num(i) == <<i, 1>>
NumAdd(x, y) == IF IsNaN(x) \/ IsNaN(y) THEN NaN ELSE Norm(x[1] * y[2] + y[1] * x[2], x[2] * y[2])
NumSub(x, y) == IF IsNaN(x) \/ IsNaN(y) THEN NaN ELSE Norm(x[1] * y[2] - y[1] * x[2], x[2] * y[2])
NumMul(x, y) == IF IsNaN(x) \/ IsNaN(y) THEN NaN ELSE Norm(x[1] * y[1], x[2] * y[2])
NumDiv(x, y) == IF IsNaN(x) \/ IsNaN(y) THEN NaN ELSE Norm(x[1] * y[2], x[2] * y[1])
\* every comparison with NaN is false
NumLess(x, y) == ~IsNaN(x) /\ ~IsNaN(y) /\ x[1] * y[2] < y[1] * x[2]
NumGreater(x, y) == NumLess(y, x)
NumIsZero(x) == ~IsNaN(x) /\ x[1] = 0
\* Math.floor
NumFloor(x) == x[1] \div x[2]

Zero == Int2Num(0)
One == Int2Num(1)

\* the least and the greatest of xs[lo..hi]
RECURSIVE LeastOf(_, _, _)
LeastOf(xs, lo, hi) ==
    IF lo = hi THEN xs[lo]
    ELSE LET mid == (lo + hi) \div 2
             a == LeastOf(xs, lo, mid)
             b == LeastOf(xs, mid + 1, hi)
         IN  IF NumLess(b, a) THEN b ELSE a

RECURSIVE GreatestOf(_, _, _)
GreatestOf(xs, lo, hi) ==
    IF lo = hi THEN xs[lo]
    ELSE LET mid == (lo + hi) \div 2
             a == GreatestOf(xs, lo, mid)
             b == GreatestOf(xs, mid + 1, hi)
         IN  IF NumLess(a, b) THEN b ELSE a

\* Math.min(...xs) and Math.max(...xs) of a non-empty array
MathMin(xs) ==
    IF \E i \in 1..Len(xs) : IsNaN(xs[i]) THEN NaN ELSE LeastOf(xs, 1, Len(xs))

MathMax(xs) ==
    IF \E i \in 1..Len(xs) : IsNaN(xs[i]) THEN NaN ELSE GreatestOf(xs, 1, Len(xs))

(***************************************************************************)
(* Text.  A string is a sequence of one-character strings.                 *)
(***************************************************************************)
DigitChars == <<"0", "1", "2", "3", "4", "5", "6", "7", "8", "9">>
IsDigit(c) == \E i \in 1..10 : DigitChars[i] = c
DigitVal(c) == (CHOOSE i \in 1..10 : DigitChars[i] = c) - 1
IsSpace(c) == c = " "

\* String.prototype.trim
RECURSIVE TrimLeft(_)
TrimLeft(s) == IF s # <<>> /\ IsSpace(Head(s)) THEN TrimLeft(Tail(s)) ELSE s

RECURSIVE TrimRight(_)
TrimRight(s) ==
    IF s # <<>> /\ IsSpace(s[Len(s)]) THEN TrimRight(SubSeq(s, 1, Len(s) - 1)) ELSE s

Trim(s) == TrimRight(TrimLeft(s))

\* String.prototype.split(sep) for a one-character separator
RECURSIVE SplitAcc(_, _, _, _)
SplitAcc(s, sep, cur, acc) ==
    IF s = <<>> THEN Append(acc, cur)
    ELSE IF Head(s) = sep THEN SplitAcc(Tail(s), sep, <<>>, Append(acc, cur))
    ELSE SplitAcc(Tail(s), sep, Append(cur, Head(s)), acc)

Split(s, sep) == SplitAcc(s, sep, <<>>, <<>>)

\* the longest prefix of decimal digits of s
RECURSIVE DigitPrefix(_)
DigitPrefix(s) ==
    IF s # <<>> /\ IsDigit(Head(s)) THEN <<Head(s)>> \o DigitPrefix(Tail(s)) ELSE <<>>

\* the value of a sequence of decimal digits
RECURSIVE DigitsValue(_)
DigitsValue(ds) ==
    IF ds = <<>> THEN 0 ELSE 10 * DigitsValue(SubSeq(ds, 1, Len(ds) - 1)) + DigitVal(ds[Len(ds)])

RECURSIVE Pow10(_)
Pow10(k) == IF k = 0 THEN 1 ELSE 10 * Pow10(k - 1)

\* parseFloat(string): leading white space, an optional sign, the longest
\* decimal literal (digits, then optionally a dot and digits); NaN when no
\* digit starts the literal.  Anything after the literal is ignored.
ParseFloat(str) ==
    LET s0 == TrimLeft(str)
        neg == s0 # <<>> /\ Head(s0) = "-"
        s1 == IF s0 # <<>> /\ Head(s0) \in {"-", "+"} THEN Tail(s0) ELSE s0
        ip == DigitPrefix(s1)
        r1 == SubSeq(s1, Len(ip) + 1, Len(s1))
        hasDot == r1 # <<>> /\ Head(r1) = "."
        fp == IF hasDot THEN DigitPrefix(Tail(r1)) ELSE <<>>
        mag == Norm(DigitsValue(ip) * Pow10(Len(fp)) + DigitsValue(fp), Pow10(Len(fp)))
    IN  IF ip = <<>> /\ fp = <<>> THEN NaN
        ELSE IF neg THEN NumSub(Zero, mag) ELSE mag

\* Number(string) as used by the Date constructor's ToNumber: the whole
\* trimmed string has to be a decimal integer; the empty string is 0.
ToNumber(str) ==
    LET s == Trim(str)
    IN  IF s = <<>> THEN Zero
        ELSE IF DigitPrefix(s) = s THEN Int2Num(DigitsValue(s))
        ELSE NaN

(***************************************************************************)
(* Dates.  A Date is its time value in days (local midnight), NaN for an   *)
(* Invalid Date.                                                           *)
(***************************************************************************)
IsLeap(y) == (y % 4 = 0 /\ y % 100 # 0) \/ y % 400 = 0

DaysInMonth(y, m) ==
    IF m = 2 THEN (IF IsLeap(y) THEN 29 ELSE 28)
    ELSE IF m \in {4, 6, 9, 11} THEN 30 ELSE 31

RECURSIVE DaysBeforeMonth(_, _)
DaysBeforeMonth(y, m) == IF m = 1 THEN 0 ELSE DaysBeforeMonth(y, m - 1) + DaysInMonth(y, m - 1)

\* days from 1 January of year 0 to 1 January of year y (proleptic Gregorian)
DaysBeforeYear(y) == 365 * y + ((y + 3) \div 4) - ((y + 99) \div 100) + ((y + 399) \div 400)

\* new Date(year, monthIndex, day): month and day overflow is carried, and a
\* year of 0..99 means 1900 + year
MakeDate(year, monthIndex, day) ==
    IF IsNaN(year) \/ IsNaN(monthIndex) \/ IsNaN(day) THEN NaN
    ELSE LET y0 == IF year[1] \in 0..99 THEN 1900 + year[1] ELSE year[1]
             y == y0 + (monthIndex[1] \div 12)
             m == (monthIndex[1] % 12) + 1
         IN  Int2Num(DaysBeforeYear(y) + DaysBeforeMonth(y, m) + day[1] - 1)

\* new Date(dateString): the ISO form YYYY-MM-DD is recognised; every other
\* text of the model's alphabet is an Invalid Date
DateParse(str) ==
    LET parts == Split(str, "-")
    IN  IF Len(parts) = 3 /\ Len(parts[1]) = 4 /\ Len(parts[2]) = 2 /\ Len(parts[3]) = 2
           /\ \A i \in 1..3 : DigitPrefix(parts[i]) = parts[i]
           /\ DigitsValue(parts[2]) \in 1..12
           /\ DigitsValue(parts[3]) \in 1..DaysInMonth(DigitsValue(parts[1]), DigitsValue(parts[2]))
        THEN MakeDate(Int2Num(DigitsValue(parts[1])), Int2Num(DigitsValue(parts[2]) - 1),
                      Int2Num(DigitsValue(parts[3])))
        ELSE NaN

\* DataLoader.parseDate
parseDate(dateStr) ==
    LET parts == Split(dateStr, ".")
    IN  IF Len(parts) = 3
        THEN MakeDate(ToNumber(parts[3]), NumSub(ToNumber(parts[2]), One), ToNumber(parts[1]))
        ELSE DateParse(dateStr)


(***************************************************************************)
(* Array.prototype.sort with the comparator of parseCSV.                   *)
(***************************************************************************)
\* (a, b) => parseDate(a.date) - parseDate(b.date); a NaN result counts as 0
CompareDates(ka, kb) ==
    LET diff == NumSub(ka, kb)
    IN  IF IsNaN(diff) THEN 0 ELSE IF diff[1] < 0 THEN -1 ELSE IF diff[1] > 0 THEN 1 ELSE 0

\* the stable sort of keyed items under a consistent comparator: an item
\* is preceded by the items that compare lower and by the equal ones that
\* came before it
StableSort(keyed) ==
    LET n == Len(keyed)
        Before(j, i) ==
            LET c == CompareDates(keyed[j].key, keyed[i].key)
            IN  c < 0 \/ (c = 0 /\ j < i)
        rank == [i \in 1..n |-> Cardinality({ j \in 1..n : Before(j, i) }) + 1]
    IN  [p \in 1..n |-> keyed[CHOOSE i \in 1..n : rank[i] = p]]

AllOrders(items) ==
    LET n == Len(items)
    IN  { [i \in 1..n |-> items[p[i]]] :
            p \in { q \in [1..n -> 1..n] : \A i, j \in 1..n : i # j => q[i] # q[j] } }

\* The comparator is consistent when no date is invalid, or when it answers
\* 0 for every pair; then the (stable) sort has one result.  With invalid
\* dates among different valid ones the comparator is inconsistent and the
\* resulting order is implementation-defined: any permutation.
SortOutcomes(items) ==
    LET keyed == [i \in 1..Len(items) |-> [item |-> items[i], key |-> parseDate(items[i].date)]]
        allEqual == \A i, j \in 1..Len(keyed) : CompareDates(keyed[i].key, keyed[j].key) = 0
        consistent == allEqual \/ \A i \in 1..Len(keyed) : ~IsNaN(keyed[i].key)
        sorted == StableSort(keyed)
    IN  IF consistent THEN { [i \in 1..Len(sorted) |-> sorted[i].item] }
        ELSE AllOrders(items)

(***************************************************************************)
(* tf.js memory: the identifiers of the live tensors (inputs: those made    *)
(* by makePredictions), and the next identifier.  A tensor is              *)
(* [id, shape, values].                                                    *)
(***************************************************************************)
NewTf == [live |-> {}, nextId |-> 1, inputs |-> {}]

Tensor(id, shape, values) == [id |-> id, shape |-> shape, values |-> values]

\* tensor.dispose() of an optional tensor field
DisposeTensors(tfm, fields) ==
    [tfm EXCEPT !.live = @ \ { Val(f).id : f \in { g \in fields : ~IsNull(g) } }]

(***************************************************************************)
(* DataLoader (src/unnamed/part_001).                                      *)
(***************************************************************************)
NewDataLoader ==
    [ data |-> Null, normalizedData |-> Null,
      X_train |-> Null, y_train |-> Null, X_test |-> Null, y_test |-> Null,
      min |-> Null, max |-> Null,
      dateLabels |-> <<>>, returns |-> <<>>,
      trainIndices |-> <<>>, testIndices |-> <<>> ]

\* content.trim().split('\n'): leading and trailing blank lines are trimmed away
RECURSIVE DropBlankHead(_)
DropBlankHead(ls) == IF ls # <<>> /\ Trim(Head(ls)) = <<>> THEN DropBlankHead(Tail(ls)) ELSE ls

RECURSIVE DropBlankTail(_)
DropBlankTail(ls) ==
    IF ls # <<>> /\ Trim(ls[Len(ls)]) = <<>> THEN DropBlankTail(SubSeq(ls, 1, Len(ls) - 1)) ELSE ls

ContentLines(content) == DropBlankTail(DropBlankHead(content))

\* a parse loop body that keeps every line whose price is a number
ParseLineAnyNumber(rawLine) ==
    LET line == Trim(rawLine)
        parts == Split(line, ";")
    IN  IF line = <<>> THEN <<>>
        ELSE IF Len(parts) >= 2
        THEN LET dateStr == Trim(parts[1])
                 price == ParseFloat(Trim(parts[2]))
             IN  IF ~IsNaN(price)
                 THEN << [date |-> dateStr, price |-> price] >>
                 ELSE <<>>
        ELSE <<>>

\* the body of the parse loop for one line: the rows it pushes (none or one)
ParseLine(rawLine) ==
    LET line == Trim(rawLine)
        parts == Split(line, ";")
    IN  IF line = <<>> THEN <<>>
        ELSE IF Len(parts) >= 2
        THEN LET dateStr == Trim(parts[1])
                 price == ParseFloat(Trim(parts[2]))
             IN  IF ~IsNaN(price) /\ NumGreater(price, Zero)
                 THEN << [date |-> dateStr, price |-> price] >>
                 ELSE <<>>
        ELSE <<>>

\* for (let i = 1; i < lines.length; i++): the header line is skipped
ParseLines(lines) ==
    LET perLine == [i \in 1..(IF Len(lines) = 0 THEN 0 ELSE Len(lines) - 1) |-> ParseLine(lines[i + 1])]
        Pushes(r) == r # <<>>
        kept == SelectSeq(perLine, Pushes)
    IN  [i \in 1..Len(kept) |-> kept[i][1]]

\* a returns loop that starts one point late
ComputeReturnsLate(parsedData) ==
    [i \in 1..(IF Len(parsedData) < 2 THEN 0 ELSE Len(parsedData) - 2) |->
        NumDiv(NumSub(parsedData[i + 2].price, parsedData[i + 1].price), parsedData[i + 1].price)]

\* the returns loop of parseCSV
ComputeReturns(parsedData) ==
    [i \in 1..(IF Len(parsedData) = 0 THEN 0 ELSE Len(parsedData) - 1) |->
        NumDiv(NumSub(parsedData[i + 1].price, parsedData[i].price), parsedData[i].price)]

\* The part of parseCSV that depends on the text alone: the possible
\* [parsedData, dateLabels, returns]
ParseOutcomes(content) ==
    LET lines == ContentLines(content)
        pushed == ParseLines(lines)
        dateLabels == [i \in 1..Len(pushed) |-> pushed[i].date]
    IN  { [parsedData |-> parsedData, dateLabels |-> dateLabels,
           returns |-> ComputeReturns(parsedData)] : parsedData \in SortOutcomes(pushed) }

\* Array.prototype.slice(begin, end) on 0-based indices, with its clamping
Slice(xs, begin, end) ==
    LET n == Len(xs)
        b == IF begin < 0 THEN (IF n + begin < 0 THEN 0 ELSE n + begin)
             ELSE (IF begin > n THEN n ELSE begin)
        e == IF end < 0 THEN (IF n + end < 0 THEN 0 ELSE n + end)
             ELSE (IF end > n THEN n ELSE end)
    IN  IF b >= e THEN <<>> ELSE SubSeq(xs, b + 1, e)

\* a range without the fallback to 1
RangeNoFallback(mn, mx) == NumSub(mx, mn)

\* const range = this.max - this.min || 1
Range(mn, mx) ==
    LET r == NumSub(mx, mn)
    IN  IF IsNaN(r) \/ NumIsZero(r) THEN One ELSE r

\* (ret - this.min) / range for every ret of returns
Rescaled(returns, mn, range) ==
    [i \in 1..Len(returns) |-> NumDiv(NumSub(returns[i], mn), range)]

\* The body of DataLoader.normalizeReturns on a non-empty returns series:
\* [min, max, normalizedData]; min and max are computed once
Normalized(returns) ==
    CHOOSE n \in { [min |-> mn, max |-> mx,
                    normalizedData |-> Rescaled(returns, mn, Range(mn, mx))] :
                   mn \in {MathMin(returns)}, mx \in {MathMax(returns)} } : TRUE

\* DataLoader.normalizeReturns (called with a non-empty returns series)
normalizeReturns(dl) ==
    LET n == Normalized(dl.returns)
    IN  [dl EXCEPT !.min = Some(n.min), !.max = Some(n.max),
                   !.normalizedData = Some(n.normalizedData)]

\* DataLoader.denormalize: [value, error]
denormalize(dl, value) ==
    IF IsNull(dl.min) \/ IsNull(dl.max)
    THEN [value |-> NaN, error |-> "Normalization parameters not available"]
    ELSE [value |-> NumAdd(NumMul(value, Range(Val(dl.min), Val(dl.max))), Val(dl.min)),
          error |-> ""]

\* a split index rounded up
SplitIndexCeil(n, testSplit) == -NumFloor(NumSub(Zero, NumMul(Int2Num(n), NumSub(One, testSplit))))

\* a split index taken from the test fraction instead of the train fraction
SplitIndexOfTest(n, testSplit) == NumFloor(NumMul(Int2Num(n), testSplit))

\* Math.floor(sequences.length * (1 - testSplit))
SplitIndex(n, testSplit) == NumFloor(NumMul(Int2Num(n), NumSub(One, testSplit)))

\* a sample count that leaves out the last window
TotalSamplesShort(numReturns, windowSize, predictionHorizon) ==
    numReturns - windowSize - predictionHorizon

\* a sample count that forgets the horizon
TotalSamplesNoHorizon(numReturns, windowSize, predictionHorizon) ==
    numReturns - windowSize + 1

\* totalSamples of prepareData
TotalSamples(numReturns, windowSize, predictionHorizon) ==
    numReturns - windowSize - predictionHorizon + 1

\* sequences.map(seq => seq.map(val => [val]))
Formatted(ss) == [k \in 1..Len(ss) |-> [j \in 1..Len(ss[k]) |-> <<ss[k][j]>>]]

\* the sliding windows of prepareData: [sequences, targets]
Windows(nd, totalSamples, windowSize, predictionHorizon) ==
    [ sequences |-> [i \in 1..totalSamples |-> Slice(nd, i - 1, i - 1 + windowSize)],
      targets |-> [i \in 1..totalSamples |->
                     Slice(nd, i - 1 + windowSize, i - 1 + windowSize + predictionHorizon)] ]

\* prepareData once the windows are cut: the split and the four tensors
SplitSamples(d1, tfm, sequences, targets, windowSize, predictionHorizon, testSplit) ==
    LET splitIdx == SplitIndex(Len(sequences), testSplit)
        id == tfm.nextId
    IN  [ dl |-> [d1 EXCEPT
              !.trainIndices = [i \in 1..splitIdx |-> i - 1],
              !.testIndices = [i \in 1..(Len(sequences) - splitIdx) |-> i - 1 + splitIdx],
              !.X_train = Some(Tensor(id, <<splitIdx, windowSize, 1>>,
                                      Formatted(Slice(sequences, 0, splitIdx)))),
              !.y_train = Some(Tensor(id + 1, <<splitIdx, predictionHorizon>>,
                                      Slice(targets, 0, splitIdx))),
              !.X_test = Some(Tensor(id + 2, <<Len(sequences) - splitIdx, windowSize, 1>>,
                                     Formatted(Slice(sequences, splitIdx, Len(sequences))))),
              !.y_test = Some(Tensor(id + 3, <<Len(sequences) - splitIdx, predictionHorizon>>,
                                     Slice(targets, splitIdx, Len(targets))))],
          tf |-> [tfm EXCEPT !.live = @ \cup {id, id + 1, id + 2, id + 3}, !.nextId = id + 4],
          error |-> "" ]

\* prepareData after normalizeReturns; the windows are cut once
CutWindows(d1, tfm, totalSamples, windowSize, predictionHorizon, testSplit) ==
    CHOOSE r \in
        { SplitSamples(d1, tfm, w.sequences, w.targets, windowSize, predictionHorizon, testSplit) :
            w \in {Windows(Val(d1.normalizedData), totalSamples, windowSize, predictionHorizon)} } :
        TRUE

\* DataLoader.prepareData: [dl, tf, error]; the series is normalized once
prepareData(dl, tfm, windowSize, predictionHorizon, testSplit) ==
    LET totalSamples == TotalSamples(Len(dl.returns), windowSize, predictionHorizon)
    IN  IF Len(dl.returns) = 0
        THEN [dl |-> dl, tf |-> tfm, error |-> "No data available"]
        ELSE IF totalSamples <= 0
        THEN [dl |-> dl, tf |-> tfm, error |-> "Not enough data"]
        ELSE CHOOSE r \in
               { CutWindows(d1, tfm, totalSamples, windowSize, predictionHorizon, testSplit) :
                   d1 \in {normalizeReturns(dl)} } : TRUE

\* DataLoader.dispose: [dl, tf]
DataLoader_dispose(dl, tfm) ==
    [ dl |-> [dl EXCEPT !.X_train = Null, !.y_train = Null, !.X_test = Null, !.y_test = Null,
                        !.normalizedData = Null],
      tf |-> DisposeTensors(tfm, {dl.X_train, dl.y_train, dl.X_test, dl.y_test}) ]


(***************************************************************************)
(* GRUModel.  Variant "A" is src/unnamed/part_000, variant "B" is          *)
(* src/unnamed/part_002 (lines 508-659).  The field model holds the tf.js  *)
(* model: null, or the number of the build that made it.                   *)
(***************************************************************************)
Variants == {"A", "B"}

NewGRUModel ==
    [ windowSize |-> DefaultWindowSize, predictionHorizon |-> DefaultHorizon,
      model |-> Null, trainingHistory |-> Null, isTrained |-> FALSE ]

\* GRUModel.buildModel; build is the number of the new tf.js model
buildModel(v, m, build) ==
    IF v = "A"
    THEN [m EXCEPT !.model = Some(build)]
    ELSE [m EXCEPT !.model = Some(build), !.isTrained = FALSE]

\* GRUModel.dispose
GRUModel_dispose(v, m) ==
    IF v = "A"
    THEN [m EXCEPT !.model = Null, !.trainingHistory = Null, !.isTrained = FALSE]
    ELSE [m EXCEPT !.model = Null, !.isTrained = FALSE]

\* The parameters of train as bound from the seven positional arguments
\* (X_train, y_train, X_test, y_test, epochs, 32, callbacks) of the callers.
\* Variant B declares (X_train, y_train, epochs, batchSize, callbacks): its
\* epochs is the test tensor and its callbacks is the number of epochs,
\* which has no onEpochEnd and no onTrainEnd.
BindTrainArgs(v, X_train, y_train, X_test, y_test, epochs) ==
    IF v = "A"
    THEN [X_train |-> X_train, y_train |-> y_train, epochsIsNumber |-> TRUE,
          epochs |-> epochs, hasCallbacks |-> TRUE]
    ELSE [X_train |-> X_train, y_train |-> y_train, epochsIsNumber |-> FALSE,
          epochs |-> 0, hasCallbacks |-> FALSE]

\* The synchronous head of GRUModel.train, up to the call of model.fit:
\* [m, error, builds] where builds is 1 when variant B built a model
TrainHead(v, m, X_train, y_train, build) ==
    LET m1 == IF v = "B" /\ IsNull(m.model) THEN buildModel(v, m, build) ELSE m
        built == IF v = "B" /\ IsNull(m.model) THEN 1 ELSE 0
    IN  IF v = "A" /\ IsNull(m.model)
        THEN [m |-> m, error |-> "Model not built", builds |-> 0]
        ELSE IF IsNull(X_train) \/ IsNull(y_train)
        THEN [m |-> m1, error |-> "Training data not provided", builds |-> built]
        ELSE [m |-> m1, error |-> "", builds |-> built]

\* the catch block of GRUModel.train when model.fit rejects
TrainCatch(v, m) ==
    IF v = "A" THEN m ELSE [m EXCEPT !.isTrained = TRUE]

\* the part of the fit callback onTrainEnd that runs before the caller's
\* onTrainEnd
TrainEndHook(v, m) ==
    IF v = "A" THEN m ELSE [m EXCEPT !.isTrained = TRUE]

\* GRUModel.train after model.fit has resolved
TrainReturn(v, m) ==
    IF v = "A" THEN [m EXCEPT !.trainingHistory = Some("history"), !.isTrained = TRUE]
    ELSE [m EXCEPT !.trainingHistory = Some("history")]

\* GRUModel.evaluate: [result, error]; result is "" (none), "metrics" (the
\* regressor's loss, mse, rmse) or "default" ({loss: 0.01, mse: 0.01,
\* rmse: 0.1}); tfThrows says whether the regressor's evaluate throws
evaluate(v, m, X_test, y_test, tfThrows) ==
    IF v = "A"
    THEN IF IsNull(m.model) \/ ~m.isTrained THEN [result |-> "", error |-> "Model not trained"]
         ELSE IF IsNull(X_test) \/ IsNull(y_test)
         THEN [result |-> "", error |-> "Test data not provided"]
         ELSE IF tfThrows THEN [result |-> "", error |-> "Evaluation error"]
         ELSE [result |-> "metrics", error |-> ""]
    ELSE IF IsNull(m.model) \/ ~m.isTrained THEN [result |-> "default", error |-> ""]
         ELSE IF tfThrows \/ IsNull(X_test) \/ IsNull(y_test)
         THEN [result |-> "default", error |-> ""]
         ELSE [result |-> "metrics", error |-> ""]

\* The synchronous head of GRUModel.predict, up to the await of
\* predictions.array(): the error it throws, "" when it goes on
PredictHead(v, m, X) ==
    IF v = "A"
    THEN IF IsNull(m.model) \/ ~m.isTrained THEN "Model not trained"
         ELSE IF IsNull(X) THEN "Input data not provided"
         ELSE ""
    ELSE IF IsNull(m.model) THEN "Model not built" ELSE ""

\* GRUModel.predict when the regressor's predict or array() fails:
\* [result, error]; variant B returns [Array(predictionHorizon).fill(0)]
PredictCatch(v, m) ==
    IF v = "A" THEN [result |-> Null, error |-> "Prediction error"]
    ELSE [result |-> Some([i \in 1..m.predictionHorizon |-> Zero]), error |-> ""]

\* GRUModel.loadWeights (variant A only) when model.load resolves
loadWeights(v, m, build) ==
    LET m1 == IF IsNull(m.model) THEN buildModel(v, m, build) ELSE m
    IN  [m1 EXCEPT !.isTrained = TRUE]

(***************************************************************************)
(* Input texts.                                                            *)
(***************************************************************************)
\* Number.prototype.toString of a natural number
RECURSIVE Digits(_)
Digits(n) == IF n < 10 THEN <<DigitChars[n + 1]>> ELSE Digits(n \div 10) \o <<DigitChars[(n % 10) + 1]>>

D2(n) == IF n < 10 THEN <<"0">> \o Digits(n) ELSE Digits(n)

\* the text DD.MM.YYYY
DateText(d, m, y) == D2(d) \o <<".">> \o D2(m) \o <<".">> \o Digits(y)

Row(dateText, priceText) == dateText \o <<";">> \o priceText

HeaderLine == <<"d", "a", "t", "e", ";", "p", "r", "i", "c", "e">>
BadDate == <<"b", "a", "d", "-", "d", "a", "t", "e">>
Abc == <<"a", "b", "c">>

\* day i (0-based) of the year 2020, as day and month
DayOf2020(i) ==
    IF i < 31 THEN <<i + 1, 1>> ELSE IF i < 60 THEN <<i - 30, 2>> ELSE <<i - 59, 3>>

\* the price of row i in a generated series
PatternPrice(pat, i) ==
    IF pat = "up" THEN 100 + i
    ELSE IF i % 2 = 0 THEN 100 ELSE 125

\* a header and n consecutively dated rows
GenContent(n, pat) ==
    <<HeaderLine>> \o
    [i \in 1..n |-> Row(DateText(DayOf2020(i - 1)[1], DayOf2020(i - 1)[2], 2020),
                        Digits(PatternPrice(pat, i - 1)))]

\* six rows in date order
ShortSorted ==
    << HeaderLine,
       Row(DateText(1, 1, 2020), Digits(100)), Row(DateText(2, 1, 2020), Digits(110)),
       Row(DateText(3, 1, 2020), Digits(99)), Row(DateText(4, 1, 2020), Digits(120)),
       Row(DateText(5, 1, 2020), Digits(120)), Row(DateText(6, 1, 2020), Digits(90)) >>

\* rows out of date order, a repeated date, blank and malformed lines
ShortMessy ==
    << HeaderLine,
       Row(DateText(3, 1, 2020), Digits(50)), Row(BadDate, Abc), <<" ">>,
       Row(DateText(1, 1, 2020), Digits(40)), Row(DateText(1, 1, 2020), Digits(0)),
       Row(DateText(2, 1, 2020), <<"-", "5">>), Row(DateText(2, 1, 2020), <<" ", "6", "0", " ">>),
       Row(DateText(1, 1, 2020), <<"4", "4", ".", "5", "x">>), Abc >>

\* all returns equal (max == min)
ShortFlat ==
    << HeaderLine,
       Row(DateText(1, 1, 2020), Digits(7)), Row(DateText(2, 1, 2020), Digits(7)),
       Row(DateText(3, 1, 2020), Digits(7)), Row(DateText(4, 1, 2020), Digits(7)) >>

\* a row with an unparseable date and a valid price, among dated rows
ShortBadDate ==
    << HeaderLine,
       Row(DateText(2, 1, 2020), Digits(20)), Row(BadDate, Digits(70)),
       Row(DateText(1, 1, 2020), Digits(10)) >>

LongUp == GenContent(70, "up")
LongZig == GenContent(70, "zig")
LongZig67 == GenContent(67, "zig")
Long66 == GenContent(66, "zig")
Long65 == GenContent(65, "up")
Long64 == GenContent(64, "up")

\* 66 dated rows with a malformed row, a zero-price row and a repeated date
\* among them
LongMessy ==
    LET rows == Tail(Long66)
    IN  <<HeaderLine>> \o SubSeq(rows, 1, 10) \o <<Row(BadDate, Abc)>> \o
        SubSeq(rows, 11, 20) \o <<Row(DateText(5, 1, 2020), Digits(0))>> \o
        SubSeq(rows, 21, 66) \o <<Row(DateText(5, 1, 2020), Digits(130))>>

\* the input texts by name
ContentText(name) ==
    CASE name = "ShortSorted" -> ShortSorted
      [] name = "ShortMessy" -> ShortMessy
      [] name = "ShortFlat" -> ShortFlat
      [] name = "ShortBadDate" -> ShortBadDate
      [] name = "HeaderOnly" -> <<HeaderLine>>
      [] name = "LongUp" -> LongUp
      [] name = "LongZig" -> LongZig
      [] name = "LongZig67" -> LongZig67
      [] name = "LongMessy" -> LongMessy
      [] name = "Long66" -> Long66
      [] name = "Long65" -> Long65
      [] name = "Long64" -> Long64

ContentNames ==
    { "ShortSorted", "ShortMessy", "ShortFlat", "ShortBadDate", "HeaderOnly",
      "LongUp", "LongZig", "LongZig67", "LongMessy", "Long66", "Long65", "Long64" }

\* texts given to the DataLoader under an arbitrary caller
LoaderContents ==
    { "ShortSorted", "ShortMessy", "ShortFlat", "ShortBadDate", "HeaderOnly",
      "LongUp", "LongZig", "LongMessy", "Long65", "Long64" }

\* the parse of every input text, computed once
ParseTable == [name \in ContentNames |-> ParseOutcomes(ContentText(name))]

\* DataLoader.parseCSV on the text called name: the possible results [dl, error]
parseCSV(dl, name) ==
    { [ dl |-> [dl EXCEPT !.dateLabels = p.dateLabels,
                          !.returns = p.returns,
                          !.data = Some(p.parsedData)],
        error |-> IF Len(p.parsedData) < MinPoints THEN "Insufficient data" ELSE "" ] :
      p \in ParseTable[name] }

\* (windowSize, predictionHorizon) pairs tried on the DataLoader
WindowConfigs == { <<DefaultWindowSize, DefaultHorizon>>, <<2, 1>>, <<3, 2>> }

\* testSplit values
TestSplits == { Norm(1, 5), Zero, One }

(***************************************************************************)
(* State.                                                                  *)
(***************************************************************************)
VARIABLES
    variant,      \* which gru.js is loaded: "A" or "B"
    appVariant,   \* which app.js is loaded: "part_002" or "part_003"
    dataLoader,   \* the DataLoader instance
    model,        \* the GRUModel instance
    app,          \* StockPredictorApp: [isTraining, predictions]
    tf,           \* tf.js tensor memory
    builds,       \* number of tf.js models built so far
    runs,         \* the GRUModel.train calls suspended at their await of model.fit
    loads,        \* the autoLoadData / loadData calls suspended at their fetch
    preds,        \* the predict calls suspended at predictions.array()
    ops,          \* number of calls and clicks so far, by kind
    last          \* the last completed operation: [op, args, error, result]

vars == <<variant, appVariant, dataLoader, model, app, tf, builds, runs, loads, preds, ops, last>>

NoOp == [op |-> "", args |-> <<>>, error |-> "", result |-> <<>>]
NoOps == [calls |-> 0]
NewApp == [isTraining |-> FALSE, predictions |-> Null]

\* a sequence without its i-th element
RemoveAt(xs, i) == [k \in 1..(Len(xs) - 1) |-> IF k < i THEN xs[k] ELSE xs[k + 1]]

(***************************************************************************)
(* DataLoader under an arbitrary caller: any sequence of parseCSV,         *)
(* prepareData, denormalize and dispose.                                   *)
(***************************************************************************)
InitLoader ==
    /\ variant = "A"
    /\ appVariant = "part_003"
    /\ dataLoader = NewDataLoader
    /\ model = NewGRUModel
    /\ app = NewApp
    /\ tf = NewTf
    /\ builds = 0
    /\ runs = <<>>
    /\ loads = <<>>
    /\ preds = <<>>
    /\ ops = NoOps
    /\ last = NoOp

LoaderOnly == UNCHANGED <<variant, appVariant, model, app, builds, runs, loads, preds>>

CallParseCSV ==
    /\ ops.calls < MaxOps
    /\ \E content \in LoaderContents : \E r \in parseCSV(dataLoader, content) :
          /\ dataLoader' = r.dl
          /\ last' = [op |-> "parseCSV", args |-> <<content>>, error |-> r.error, result |-> <<>>]
    /\ ops' = [ops EXCEPT !.calls = @ + 1]
    /\ UNCHANGED tf
    /\ LoaderOnly

CallPrepareData ==
    /\ ops.calls < MaxOps
    /\ \E cfg \in WindowConfigs, testSplit \in TestSplits :
          LET r == prepareData(dataLoader, tf, cfg[1], cfg[2], testSplit)
          IN  /\ dataLoader' = r.dl
              /\ tf' = r.tf
              /\ last' = [op |-> "prepareData", args |-> <<cfg[1], cfg[2], testSplit>>,
                          error |-> r.error,
                          result |-> [numReturns |-> Len(dataLoader.returns),
                                      tensorsBefore |-> tf.nextId - 1]]
    /\ ops' = [ops EXCEPT !.calls = @ + 1]
    /\ LoaderOnly

CallDenormalize ==
    /\ ops.calls < MaxOps
    /\ \E value \in {Zero, One} :
          LET r == denormalize(dataLoader, value)
          IN  last' = [op |-> "denormalize", args |-> <<value>>, error |-> r.error,
                       result |-> <<r.value>>]
    /\ ops' = [ops EXCEPT !.calls = @ + 1]
    /\ UNCHANGED <<dataLoader, tf>>
    /\ LoaderOnly

CallDispose ==
    /\ ops.calls < MaxOps
    /\ LET r == DataLoader_dispose(dataLoader, tf)
       IN  /\ dataLoader' = r.dl
           /\ tf' = r.tf
    /\ last' = [op |-> "dispose", args |-> <<>>, error |-> "", result |-> <<>>]
    /\ ops' = [ops EXCEPT !.calls = @ + 1]
    /\ LoaderOnly

NextLoader == CallParseCSV \/ CallPrepareData \/ CallDenormalize \/ CallDispose

SpecLoader == InitLoader /\ [][NextLoader]_vars

(***************************************************************************)
(* The regressor's fit, as seen from GRUModel.train.  A run is one call of *)
(* train suspended at its await of model.fit:                              *)
(*   caller       "api" (a direct caller) or "app" (trainModel)            *)
(*   build        the tf.js model being fitted                             *)
(*   pc           "fit" while epochs run, "ended" once the fit callback    *)
(*                onTrainEnd has returned and fit is about to resolve      *)
(*   epoch        epochs done;  epochs: epochs the fit runs                *)
(*   hasCallbacks whether train's callbacks parameter holds the caller's   *)
(*                onEpochEnd / onTrainEnd                                  *)
(*   epochCalls, endCalls  invocations of the caller's callbacks           *)
(*   aborted      whether GRUModel.dispose was called during the run       *)
(*   tensors      the ids of the train tensors the fit reads               *)
(*   samples      the number of samples of X_train                         *)
(***************************************************************************)
NewRun(caller, build, bound, epochs) ==
    [ caller |-> caller, build |-> build, pc |-> "fit", epoch |-> 0, epochs |-> epochs,
      hasCallbacks |-> bound.hasCallbacks, epochCalls |-> 0, endCalls |-> 0,
      aborted |-> FALSE,
      tensors |-> {Val(bound.X_train).id, Val(bound.y_train).id},
      samples |-> Val(bound.X_train).shape[1] ]

\* the numbers of epochs a fit may run: the bound epochs when it is a
\* number, anything the regressor makes of it otherwise
FitEpochs(bound) == IF bound.epochsIsNumber THEN {bound.epochs} ELSE 0..MaxEpochs

TrainResult(run, error) ==
    [ op |-> "train", args |-> <<run.caller>>, error |-> error,
      result |-> [endCalls |-> run.endCalls, epochCalls |-> run.epochCalls,
                  epochs |-> run.epochs, aborted |-> run.aborted] ]

MarkAborted(rs) == [i \in 1..Len(rs) |-> [rs[i] EXCEPT !.aborted = TRUE]]

\* abstract tensors handed to GRUModel by a direct caller
ApiTensor == Some(Tensor(0, <<1, DefaultWindowSize, 1>>, <<>>))

\* a tensor of zero samples, as prepareData makes for a split index of 0
ApiEmptyTensor == Some(Tensor(0, <<0, DefaultWindowSize, 1>>, <<>>))

\* the forecasts (normalized) the regressor may return
PredictOutputs(m) ==
    { Some([i \in 1..m.predictionHorizon |-> x]) : x \in {One, Norm(1, 2)} }

(***************************************************************************)
(* GRUModel under a direct caller.                                         *)
(***************************************************************************)
InitModel ==
    /\ variant \in Variants
    /\ appVariant = "part_003"
    /\ dataLoader = NewDataLoader
    /\ model = NewGRUModel
    /\ app = NewApp
    /\ tf = NewTf
    /\ builds = 0
    /\ runs = <<>>
    /\ loads = <<>>
    /\ preds = <<>>
    /\ ops = NoOps
    /\ last = NoOp

ModelOnly == UNCHANGED <<variant, appVariant, dataLoader, app, tf, loads>>

ApiBuildModel ==
    /\ ops.calls < MaxOps
    /\ model' = buildModel(variant, model, builds + 1)
    /\ builds' = builds + 1
    /\ last' = [op |-> "buildModel", args |-> <<>>, error |-> "", result |-> <<>>]
    /\ ops' = [ops EXCEPT !.calls = @ + 1]
    /\ UNCHANGED <<runs, preds>>
    /\ ModelOnly

ApiTrain ==
    /\ ops.calls < MaxOps
    /\ \E X \in {Null, ApiTensor, ApiEmptyTensor}, epochs \in 1..MaxEpochs :
          LET y == IF IsNull(X) THEN ApiTensor ELSE X
              h == TrainHead(variant, model, X, y, builds + 1)
              bound == BindTrainArgs(variant, X, y, ApiTensor, ApiTensor, epochs)
          IN  /\ model' = h.m
              /\ builds' = builds + h.builds
              /\ IF h.error # ""
                 THEN /\ runs' = runs
                      /\ last' = [op |-> "train", args |-> <<"api">>, error |-> h.error,
                                  result |-> [endCalls |-> 0, epochCalls |-> 0, epochs |-> 0,
                                              aborted |-> FALSE]]
                 ELSE /\ \E n \in FitEpochs(bound) :
                            runs' = Append(runs, NewRun("api", Val(h.m.model), bound, n))
                      /\ last' = [op |-> "trainCalled", args |-> <<"api">>, error |-> "",
                                  result |-> <<>>]
    /\ ops' = [ops EXCEPT !.calls = @ + 1]
    /\ UNCHANGED preds
    /\ ModelOnly

\* one epoch of a fit, and the fit callback onEpochEnd
ApiFitEpoch ==
    /\ \E i \in 1..Len(runs) :
          /\ runs[i].caller = "api" /\ runs[i].pc = "fit" /\ runs[i].epoch < runs[i].epochs
          /\ runs' = [runs EXCEPT ![i].epoch = @ + 1,
                                  ![i].epochCalls = IF runs[i].hasCallbacks THEN @ + 1 ELSE @]
    /\ UNCHANGED <<model, builds, preds, ops, last>>
    /\ ModelOnly

\* model.fit rejects: the catch block of train
ApiFitFail ==
    /\ \E i \in 1..Len(runs) :
          /\ runs[i].caller = "api" /\ runs[i].pc = "fit"
          /\ model' = TrainCatch(variant, model)
          /\ last' = TrainResult(runs[i], "Training failed")
          /\ runs' = RemoveAt(runs, i)
    /\ UNCHANGED <<builds, preds, ops>>
    /\ ModelOnly

\* the last epoch is done: the fit callback onTrainEnd
ApiFitTrainEnd ==
    /\ \E i \in 1..Len(runs) :
          /\ runs[i].caller = "api" /\ runs[i].pc = "fit" /\ runs[i].epoch = runs[i].epochs
          /\ model' = TrainEndHook(variant, model)
          /\ runs' = [runs EXCEPT ![i].pc = "ended",
                                  ![i].endCalls = IF runs[i].hasCallbacks THEN @ + 1 ELSE @]
    /\ UNCHANGED <<builds, preds, ops, last>>
    /\ ModelOnly

\* model.fit resolves: train returns the history
ApiFitResolve ==
    /\ \E i \in 1..Len(runs) :
          /\ runs[i].caller = "api" /\ runs[i].pc = "ended"
          /\ model' = TrainReturn(variant, model)
          /\ last' = TrainResult(runs[i], "")
          /\ runs' = RemoveAt(runs, i)
    /\ UNCHANGED <<builds, preds, ops>>
    /\ ModelOnly

\* GRUModel.predict is called: its head, and the regressor's predict
ApiPredict ==
    /\ ops.calls < MaxOps
    /\ \E X \in {Null, ApiTensor}, tfThrows \in BOOLEAN :
          LET e == PredictHead(variant, model, X)
              called == [trained |-> model.isTrained, built |-> ~IsNull(model.model)]
              c == PredictCatch(variant, model)
          IN  IF e # ""
              THEN /\ last' = [op |-> "predict", args |-> called, error |-> e, result |-> Null]
                   /\ preds' = preds
              ELSE IF tfThrows \/ IsNull(X)
              THEN /\ last' = [op |-> "predict", args |-> called, error |-> c.error,
                               result |-> c.result]
                   /\ preds' = preds
              ELSE /\ last' = [op |-> "predictCalled", args |-> called, error |-> "",
                               result |-> Null]
                   /\ preds' = Append(preds, [caller |-> "api", called |-> called])
    /\ ops' = [ops EXCEPT !.calls = @ + 1]
    /\ UNCHANGED <<model, builds, runs>>
    /\ ModelOnly

\* predictions.array() resolves: predict returns the forecast
ApiPredictResolve ==
    /\ \E i \in 1..Len(preds), out \in PredictOutputs(model) :
          /\ preds[i].caller = "api"
          /\ last' = [op |-> "predict", args |-> preds[i].called, error |-> "", result |-> out]
          /\ preds' = RemoveAt(preds, i)
    /\ UNCHANGED <<model, builds, runs, ops>>
    /\ ModelOnly

\* predictions.array() rejects: the catch block of predict
ApiPredictFail ==
    /\ \E i \in 1..Len(preds) :
          /\ preds[i].caller = "api"
          /\ last' = [op |-> "predict", args |-> preds[i].called,
                      error |-> PredictCatch(variant, model).error,
                      result |-> PredictCatch(variant, model).result]
          /\ preds' = RemoveAt(preds, i)
    /\ UNCHANGED <<model, builds, runs, ops>>
    /\ ModelOnly

ApiEvaluate ==
    /\ ops.calls < MaxOps
    /\ \E X \in {Null, ApiTensor}, tfThrows \in BOOLEAN :
          LET r == evaluate(variant, model, X, ApiTensor, tfThrows)
          IN  last' = [op |-> "evaluate",
                       args |-> [trained |-> model.isTrained, built |-> ~IsNull(model.model)],
                       error |-> r.error, result |-> r.result]
    /\ ops' = [ops EXCEPT !.calls = @ + 1]
    /\ UNCHANGED <<model, builds, runs, preds>>
    /\ ModelOnly

ApiDispose ==
    /\ ops.calls < MaxOps
    /\ model' = GRUModel_dispose(variant, model)
    /\ runs' = MarkAborted(runs)
    /\ last' = [op |-> "dispose", args |-> <<>>, error |-> "", result |-> <<>>]
    /\ ops' = [ops EXCEPT !.calls = @ + 1]
    /\ UNCHANGED <<builds, preds>>
    /\ ModelOnly

\* GRUModel.loadWeights (variant A): model.load resolves or rejects
ApiLoadWeights ==
    /\ ops.calls < MaxOps
    /\ variant = "A"
    /\ \E loaded \in BOOLEAN :
          /\ model' = IF loaded THEN loadWeights(variant, model, builds + 1)
                      ELSE IF IsNull(model.model) THEN buildModel(variant, model, builds + 1)
                      ELSE model
          /\ last' = [op |-> "loadWeights", args |-> <<>>, error |-> "", result |-> <<loaded>>]
    /\ builds' = IF IsNull(model.model) THEN builds + 1 ELSE builds
    /\ ops' = [ops EXCEPT !.calls = @ + 1]
    /\ UNCHANGED <<runs, preds>>
    /\ ModelOnly

NextModel ==
    \/ ApiBuildModel \/ ApiTrain \/ ApiFitEpoch \/ ApiFitFail \/ ApiFitTrainEnd \/ ApiFitResolve
    \/ ApiPredict \/ ApiPredictResolve \/ ApiPredictFail \/ ApiEvaluate \/ ApiDispose
    \/ ApiLoadWeights

SpecModel == InitModel /\ [][NextModel]_vars

(***************************************************************************)
(* StockPredictorApp.  The constructor has called autoLoadData, which is   *)
(* suspended at its fetch.  Clicks arrive at any time; every await is a    *)
(* point where other handlers run.                                         *)
(***************************************************************************)
AppVariants == {"part_002", "part_003"}

\* texts the fetch may deliver
AppContents == {"LongUp", "LongZig", "Long64"}

\* testSplit = 0.2, the default of prepareData
DefaultTestSplit == Norm(1, 5)

InitApp ==
    /\ variant \in Variants
    /\ appVariant \in AppVariants
    /\ dataLoader = NewDataLoader
    /\ model = NewGRUModel
    /\ app = NewApp
    /\ tf = NewTf
    /\ builds = 0
    /\ runs = <<>>
    /\ loads = << [kind |-> "autoLoadData"] >>
    /\ preds = <<>>
    /\ ops = NoOps
    /\ last = NoOp

Fixed == UNCHANGED <<variant, appVariant>>

\* loadData up to its await of loadCSVFromGitHub
ClickLoadData ==
    /\ ops.calls < MaxOps
    /\ LET r == DataLoader_dispose(dataLoader, tf)
       IN  /\ dataLoader' = r.dl
           /\ tf' = r.tf
    /\ model' = GRUModel_dispose(variant, model)
    /\ runs' = MarkAborted(runs)
    /\ app' = [app EXCEPT !.predictions = Null]
    /\ loads' = Append(loads, [kind |-> "loadData"])
    /\ ops' = [ops EXCEPT !.calls = @ + 1]
    /\ last' = [op |-> "loadDataCalled", args |-> <<>>, error |-> "", result |-> <<>>]
    /\ UNCHANGED <<builds, preds>>
    /\ Fixed

\* the fetch of a load resolves: parseCSV, then prepareData()
FetchResolve ==
    /\ \E content \in AppContents :
          \E p \in parseCSV(dataLoader, content) :
             LET q == prepareData(p.dl, tf, DefaultWindowSize, DefaultHorizon, DefaultTestSplit)
                 failed == IF p.error # "" THEN p.error ELSE q.error
             IN  /\ dataLoader' = IF p.error # "" THEN p.dl ELSE q.dl
                 /\ tf' = IF p.error # "" THEN tf ELSE q.tf
                 /\ \E i \in 1..Len(loads) :
                       /\ last' = [op |-> loads[i].kind, args |-> <<content>>,
                                   error |-> failed, result |-> <<>>]
                       /\ loads' = RemoveAt(loads, i)
    /\ UNCHANGED <<model, app, builds, runs, preds, ops>>
    /\ Fixed

\* the fetch of a load fails
FetchFail ==
    /\ \E i \in 1..Len(loads) :
          /\ last' = [op |-> loads[i].kind, args |-> <<>>, error |-> "Failed to load data",
                      result |-> <<>>]
          /\ loads' = RemoveAt(loads, i)
    /\ UNCHANGED <<dataLoader, tf, model, app, builds, runs, preds, ops>>
    /\ Fixed

\* a trainModel that never ignores a request
TrainModelGuardOpen(a) == FALSE

\* if (this.isTraining) return
TrainModelGuard(a) == a.isTraining

\* if (!this.dataLoader.X_train) throw (part_003 only)
TrainingDataCheck(av, dl) == av = "part_003" /\ IsNull(dl.X_train)

\* trainModel up to its await of model.train
ClickTrain ==
    /\ ops.calls < MaxOps
    /\ ops' = [ops EXCEPT !.calls = @ + 1]
    /\ \E epochs \in 1..MaxEpochs :
          IF TrainModelGuard(app)
          THEN /\ last' = [op |-> "trainModel", args |-> <<epochs>>, error |-> "",
                           result |-> [ignored |-> TRUE, runsBefore |-> runs,
                                       started |-> 0, built |-> 0]]
               /\ UNCHANGED <<model, app, builds, runs>>
          ELSE IF TrainingDataCheck(appVariant, dataLoader)
          THEN /\ last' = [op |-> "trainModel", args |-> <<epochs>>,
                           error |-> "Training data not loaded",
                           result |-> [ignored |-> FALSE, runsBefore |-> runs,
                                       started |-> 0, built |-> 0]]
               /\ app' = [app EXCEPT !.isTraining = FALSE]
               /\ UNCHANGED <<model, builds, runs>>
          ELSE
          LET m1 == buildModel(variant, model, builds + 1)
              h == TrainHead(variant, m1, dataLoader.X_train, dataLoader.y_train, builds + 2)
              bound == BindTrainArgs(variant, dataLoader.X_train, dataLoader.y_train,
                                     dataLoader.X_test, dataLoader.y_test, epochs)
          IN  /\ model' = h.m
              /\ builds' = builds + 1 + h.builds
              /\ IF h.error # ""
                 THEN /\ runs' = runs
                      /\ app' = [app EXCEPT !.isTraining = FALSE]
                      /\ last' = [op |-> "trainModel", args |-> <<epochs>>, error |-> h.error,
                                  result |-> [ignored |-> FALSE, runsBefore |-> runs,
                                              started |-> 0, built |-> 1 + h.builds]]
                 ELSE /\ \E n \in FitEpochs(bound) :
                            runs' = Append(runs, NewRun("app", Val(h.m.model), bound, n))
                      /\ app' = [app EXCEPT !.isTraining = TRUE]
                      /\ last' = [op |-> "trainCalled", args |-> <<"app">>, error |-> "",
                                  result |-> <<>>]
    /\ UNCHANGED <<dataLoader, tf, loads, preds>>
    /\ Fixed

\* one epoch of the fit, and the fit callback onEpochEnd (the app's
\* onEpochEnd updates the progress display only)
AppFitEpoch ==
    /\ \E i \in 1..Len(runs) :
          /\ runs[i].caller = "app" /\ runs[i].pc = "fit" /\ runs[i].epoch < runs[i].epochs
          /\ runs' = [runs EXCEPT ![i].epoch = @ + 1,
                                  ![i].epochCalls = IF runs[i].hasCallbacks THEN @ + 1 ELSE @]
    /\ UNCHANGED <<dataLoader, tf, model, app, builds, loads, preds, ops, last>>
    /\ Fixed

\* model.fit rejects: the catch block of train, then the one of trainModel
AppFitFail ==
    /\ \E i \in 1..Len(runs) :
          /\ runs[i].caller = "app" /\ runs[i].pc = "fit"
          /\ model' = TrainCatch(variant, model)
          /\ last' = TrainResult(runs[i], "Training failed")
          /\ runs' = RemoveAt(runs, i)
    /\ app' = [app EXCEPT !.isTraining = FALSE]
    /\ UNCHANGED <<dataLoader, tf, builds, loads, preds, ops>>
    /\ Fixed

\* The last epoch is done: the fit callback onTrainEnd.  The app's
\* onTrainEnd clears isTraining and evaluates the model; an exception of
\* evaluate leaves the callback, rejects the fit and reaches both catch
\* blocks.
AppFitTrainEnd ==
    /\ \E i \in 1..Len(runs), tfThrows \in BOOLEAN :
          /\ runs[i].caller = "app" /\ runs[i].pc = "fit" /\ runs[i].epoch = runs[i].epochs
          /\ LET m1 == TrainEndHook(variant, model)
                 ev == evaluate(variant, m1, dataLoader.X_test, dataLoader.y_test, tfThrows)
                 called == [runs[i] EXCEPT !.endCalls = @ + 1]
             IN  IF ~runs[i].hasCallbacks
                 THEN /\ model' = m1
                      /\ runs' = [runs EXCEPT ![i].pc = "ended"]
                      /\ UNCHANGED <<app, last>>
                 ELSE IF ev.error # ""
                 THEN /\ model' = TrainCatch(variant, m1)
                      /\ runs' = RemoveAt(runs, i)
                      /\ app' = [app EXCEPT !.isTraining = FALSE]
                      /\ last' = TrainResult(called, ev.error)
                 ELSE /\ model' = m1
                      /\ runs' = [runs EXCEPT ![i] = [called EXCEPT !.pc = "ended"]]
                      /\ app' = [app EXCEPT !.isTraining = FALSE]
                      /\ last' = [op |-> "onTrainEnd", args |-> <<>>, error |-> "",
                                  result |-> <<ev.result>>]
    /\ UNCHANGED <<dataLoader, tf, builds, loads, preds, ops>>
    /\ Fixed

\* model.fit resolves: train returns, and trainModel with it
AppFitResolve ==
    /\ \E i \in 1..Len(runs) :
          /\ runs[i].caller = "app" /\ runs[i].pc = "ended"
          /\ model' = TrainReturn(variant, model)
          /\ last' = TrainResult(runs[i], "")
          /\ runs' = RemoveAt(runs, i)
    /\ UNCHANGED <<dataLoader, tf, app, builds, loads, preds, ops>>
    /\ Fixed

\* normalizedPredictions[0].map(pred => this.dataLoader.denormalize(pred))
DenormalizeAll(dl, out) ==
    [ values |-> [i \in 1..Len(out) |-> denormalize(dl, out[i]).value],
      error |-> IF out # <<>> /\ denormalize(dl, out[1]).error # ""
                THEN denormalize(dl, out[1]).error ELSE "" ]

\* makePredictions after its await of model.predict, given the forecast:
\* the values of app, tf and last
PredictionsDone(task, out) ==
    LET d == DenormalizeAll(dataLoader, Val(out))
    IN  [ app |-> IF d.error = "" THEN [app EXCEPT !.predictions = Some(d.values)] ELSE app,
          tf |-> [tf EXCEPT !.live = @ \ {task.input}, !.inputs = @ \ {task.input}],
          last |-> [op |-> "makePredictions", args |-> <<>>, error |-> d.error,
                    result |-> [predictions |-> d.values, normalized |-> Val(out),
                                windowMin |-> task.windowMin, windowMax |-> task.windowMax]] ]

PredictionsFailed(error) ==
    [op |-> "makePredictions", args |-> <<>>, error |-> error, result |-> <<>>]

\* makePredictions up to its await of model.predict
ClickPredict ==
    /\ ops.calls < MaxOps
    /\ ops' = [ops EXCEPT !.calls = @ + 1]
    /\ \E tfThrows \in BOOLEAN :
          LET normalizedData == dataLoader.normalizedData
              windowSize == model.windowSize
              id == tf.nextId
              inputTensor == Tensor(id, <<1, windowSize, 1>>,
                                    Slice(Val(normalizedData), -windowSize, Len(Val(normalizedData))))
              made == [tf EXCEPT !.live = @ \cup {id}, !.inputs = @ \cup {id}, !.nextId = id + 1]
              task == [caller |-> "app", input |-> id,
                       windowMin |-> dataLoader.min, windowMax |-> dataLoader.max]
              e == PredictHead(variant, model, Some(inputTensor))
              c == PredictCatch(variant, model)
          IN  IF ~model.isTrained
              THEN /\ last' = PredictionsFailed("Model not trained. Please train the model first.")
                   /\ UNCHANGED <<tf, preds, app>>
              ELSE IF IsNull(normalizedData)
              THEN /\ last' = PredictionsFailed("TypeError")
                   /\ UNCHANGED <<tf, preds, app>>
              ELSE IF Len(Val(normalizedData)) < windowSize
              THEN /\ last' = PredictionsFailed("Not enough data for prediction")
                   /\ UNCHANGED <<tf, preds, app>>
              ELSE IF e # ""
              THEN /\ last' = PredictionsFailed(e)
                   /\ tf' = made
                   /\ UNCHANGED <<preds, app>>
              ELSE IF tfThrows
              THEN IF c.error # ""
                   THEN /\ last' = PredictionsFailed(c.error)
                        /\ tf' = made
                        /\ UNCHANGED <<preds, app>>
                   ELSE /\ preds' = Append(preds, [task EXCEPT !.caller = "app-caught"])
                        /\ tf' = made
                        /\ last' = [op |-> "predictCalled", args |-> <<>>, error |-> "",
                                    result |-> Null]
                        /\ UNCHANGED app
              ELSE /\ preds' = Append(preds, task)
                   /\ tf' = made
                   /\ last' = [op |-> "predictCalled", args |-> <<>>, error |-> "",
                               result |-> Null]
                   /\ UNCHANGED app
    /\ UNCHANGED <<dataLoader, model, builds, runs, loads>>
    /\ Fixed

\* predictions.array() resolves, or predict has returned its fallback:
\* makePredictions resumes with the forecast
AppPredictResolve ==
    /\ \E i \in 1..Len(preds) :
          \E out \in IF preds[i].caller = "app" THEN PredictOutputs(model)
                     ELSE {PredictCatch(variant, model).result} :
             LET done == PredictionsDone(preds[i], out)
             IN  /\ preds[i].caller \in {"app", "app-caught"}
                 /\ app' = done.app
                 /\ tf' = done.tf
                 /\ last' = done.last
                 /\ preds' = RemoveAt(preds, i)
    /\ UNCHANGED <<dataLoader, model, builds, runs, loads, ops>>
    /\ Fixed

\* predictions.array() rejects: the catch block of predict, then
\* makePredictions resumes with the fallback (B) or catches the error (A)
AppPredictFail ==
    /\ \E i \in 1..Len(preds) :
          LET c == PredictCatch(variant, model)
              done == PredictionsDone(preds[i], c.result)
          IN  /\ preds[i].caller = "app"
              /\ IF c.error # ""
                 THEN /\ last' = PredictionsFailed(c.error)
                      /\ UNCHANGED <<app, tf>>
                 ELSE /\ app' = done.app
                      /\ tf' = done.tf
                      /\ last' = done.last
              /\ preds' = RemoveAt(preds, i)
    /\ UNCHANGED <<dataLoader, model, builds, runs, loads, ops>>
    /\ Fixed

\* a forEach body that adds the return to the price
CompoundAbsolute(cumulativePrice, predictions) ==
    [ k \in 1..Len(predictions) |->
        [ day |-> k, predictedReturn |-> predictions[k],
          newPrice |-> NumAdd(cumulativePrice, predictions[k]) ] ]

\* the forEach of displayPredictions: the card of every forecast day, given
\* the cumulativePrice it starts from
RECURSIVE Compound(_, _)
Compound(cumulativePrice, predictions) ==
    IF predictions = <<>> THEN <<>>
    ELSE LET predictedReturn == Head(predictions)
             priceChange == NumMul(cumulativePrice, predictedReturn)
             newPrice == NumAdd(cumulativePrice, priceChange)
             rest == Compound(newPrice, Tail(predictions))
         IN  << [day |-> 1, predictedReturn |-> predictedReturn, newPrice |-> newPrice] >> \o
             [k \in 1..Len(rest) |-> [rest[k] EXCEPT !.day = @ + 1]]

\* StockPredictorApp.displayPredictions: the cards it shows
displayPredictions(dl, a) ==
    LET lastPrice == Val(dl.data)[Len(Val(dl.data))].price
    IN  Compound(lastPrice, Val(a.predictions))

NextApp ==
    \/ ClickLoadData
    \/ FetchResolve
    \/ FetchFail
    \/ ClickTrain
    \/ AppFitEpoch
    \/ AppFitFail
    \/ AppFitTrainEnd
    \/ AppFitResolve
    \/ ClickPredict
    \/ AppPredictResolve
    \/ AppPredictFail

SpecApp == InitApp /\ [][NextApp]_vars

(***************************************************************************)
(* displayPredictions on its own: a loaded and prepared series, and the    *)
(* forecast makePredictions has stored in predictions.                     *)
(***************************************************************************)
\* the series shown: their last prices are 100, 125 and 169
DisplayContents == {"LongZig67", "LongZig", "LongUp"}

DisplayReturns == {Norm(1, 100), Norm(-1, 50), Zero, Norm(1, 2), Norm(-1, 1)}

\* forecasts of one and two days, and of predictionHorizon days
DisplayForecasts ==
    { <<x>> : x \in DisplayReturns } \cup
    { <<x, y>> : x, y \in DisplayReturns } \cup
    [1..DefaultHorizon -> {Zero, Norm(1, 2), Norm(-1, 2)}]

InitDisplay ==
    /\ variant = "B"
    /\ appVariant = "part_003"
    /\ \E name \in DisplayContents : \E p \in parseCSV(NewDataLoader, name) :
          LET r == prepareData(p.dl, NewTf, DefaultWindowSize, DefaultHorizon, DefaultTestSplit)
          IN  /\ dataLoader = r.dl
              /\ tf = r.tf
    /\ model = [buildModel("B", NewGRUModel, 1) EXCEPT !.isTrained = TRUE]
    /\ app \in { [isTraining |-> FALSE, predictions |-> Some(f)] : f \in DisplayForecasts }
    /\ builds = 1
    /\ runs = <<>>
    /\ loads = <<>>
    /\ preds = <<>>
    /\ ops = NoOps
    /\ last = NoOp

CallDisplayPredictions ==
    /\ ops.calls < MaxOps
    /\ ops' = [ops EXCEPT !.calls = @ + 1]
    /\ last' = [op |-> "displayPredictions", args |-> <<>>, error |-> "",
                result |-> displayPredictions(dataLoader, app)]
    /\ UNCHANGED <<variant, appVariant, dataLoader, model, app, tf, builds, runs, loads, preds>>

NextDisplay == CallDisplayPredictions

SpecDisplay == InitDisplay /\ [][NextDisplay]_vars

(***************************************************************************)
(* Claims.                                                                 *)
(***************************************************************************)

\* C1: after a train call whose fit failed, the error has reached the
\* caller and the engine is not Trained, in both variants of GRUModel.
C1_FailedFitNotTrained ==
    (last.op = "train" /\ last.error = "Training failed") => ~model.isTrained

\* C2: a predict call made while isTrained is false fails with an error and
\* returns no forecast.
C2_PredictNeedsTraining ==
    (last.op = "predict" /\ ~last.args.trained) =>
        last.error # "" /\ IsNull(last.result)

\* C3: an evaluate call made before training succeeded fails with the
\* model-not-trained error and returns no metrics.
C3_EvaluateNeedsTraining ==
    (last.op = "evaluate" /\ ~last.args.trained) =>
        last.error = "Model not trained" /\ last.result = ""

\* C4: in every reachable state of the DataLoader, a non-null min / max is
\* the minimum / maximum of the current returns series (no normalization
\* parameter of a previous dataset survives the loading of new raw data).
C4_MinMaxOfCurrentReturns ==
    /\ ~IsNull(dataLoader.min) =>
          dataLoader.returns # <<>> /\ Val(dataLoader.min) = MathMin(dataLoader.returns)
    /\ ~IsNull(dataLoader.max) =>
          dataLoader.returns # <<>> /\ Val(dataLoader.max) = MathMax(dataLoader.returns)

\* C5: every forecast makePredictions stores is the regressor's output
\* denormalized with the min / max that normalized its input window, also
\* when a reload ran while makePredictions awaited predict.
C5_ForecastUsesWindowParameters ==
    (last.op = "makePredictions" /\ last.error = "") =>
        \A i \in 1..Len(last.result.normalized) :
            last.result.predictions[i] =
                NumAdd(NumMul(last.result.normalized[i],
                              Range(Val(last.result.windowMin), Val(last.result.windowMax))),
                       Val(last.result.windowMin))

\* C6: at most one training run of the app is in flight; a training request
\* made while a run is in flight is ignored: it starts no fit and builds no
\* model.
C6_SingleTrainingRun ==
    /\ Len(runs) <= 1
    /\ (last.op = "trainModel" /\ last.result.runsBefore # <<>>) =>
           last.result.ignored /\ last.result.started = 0 /\ last.result.built = 0

\* C6 witness: a training request was ignored while a fit was running.
C6_Witness ==
    /\ last.op = "trainModel" /\ last.result.ignored
    /\ Len(last.result.runsBefore) = 1 /\ last.result.runsBefore[1].pc = "fit"
    /\ Len(runs) = 1

\* C7: when a train call returns normally, the caller's onTrainEnd has been
\* invoked exactly once and the engine is Trained.
C7_TrainEndOnceAndTrained ==
    (last.op = "train" /\ last.error = "") =>
        last.result.endCalls = 1 /\ model.isTrained

\* C8: when a training run that was aborted (the engine disposed while
\* train awaited fit) has ended, the engine is not Trained and holds no
\* model.
C8_AbortedRunNotTrained ==
    (last.op = "train" /\ last.result.aborted) =>
        ~model.isTrained /\ IsNull(model.model)

\* C9: at most one set of four dataset tensors is live, whatever loads,
\* reloads and prepareData calls have run.
C9_OneTensorSetLive == Cardinality(tf.live \ tf.inputs) <= 4

\* C10: prepareData on L returns with window W and horizon H creates
\* exactly L - W - H + 1 samples when that number is positive and none
\* otherwise; every input sequence has length W, every target length H, and
\* the train and test counts add up to the total.
C10_SampleCount ==
    last.op = "prepareData" =>
        LET W == last.args[1]
            H == last.args[2]
            total == last.result.numReturns - W - H + 1
            Xtr == Val(dataLoader.X_train)
            ytr == Val(dataLoader.y_train)
            Xte == Val(dataLoader.X_test)
            yte == Val(dataLoader.y_test)
        IN  IF total > 0
            THEN /\ last.error = ""
                 /\ tf.nextId - 1 = last.result.tensorsBefore + 4
                 /\ Len(Xtr.values) + Len(Xte.values) = total
                 /\ Len(ytr.values) + Len(yte.values) = total
                 /\ Xtr.shape[1] = Len(Xtr.values) /\ ytr.shape[1] = Len(Xtr.values)
                 /\ Xte.shape[1] = Len(Xte.values) /\ yte.shape[1] = Len(Xte.values)
                 /\ \A k \in 1..Len(Xtr.values) : Len(Xtr.values[k]) = W /\ Len(ytr.values[k]) = H
                 /\ \A k \in 1..Len(Xte.values) : Len(Xte.values[k]) = W /\ Len(yte.values[k]) = H
            ELSE /\ last.error # ""
                 /\ tf.nextId - 1 = last.result.tensorsBefore

\* C10 witness: a prepareData call that created samples on both sides of
\* the split.
C10_Witness ==
    /\ last.op = "prepareData" /\ last.error = ""
    /\ Val(dataLoader.X_train).shape[1] > 0
    /\ Val(dataLoader.X_test).shape[1] > 0

\* C11: the train/test split of prepareData is chronological.  With
\* splitIdx = floor(totalSamples * (1 - testSplit)), train holds exactly the
\* samples 0 .. splitIdx - 1 and test the samples splitIdx .. totalSamples - 1
\* in their original order (sample i is the window starting at index i of the
\* normalized series), so every test window starts at or after every train
\* window.
C11_ChronologicalSplit ==
    (last.op = "prepareData" /\ last.error = "") =>
        LET W == last.args[1]
            H == last.args[2]
            testSplit == last.args[3]
            total == last.result.numReturns - W - H + 1
            nd == Val(dataLoader.normalizedData)
            train == dataLoader.trainIndices
            test == dataLoader.testIndices
            splitIdx == Len(train)
            Window(i) == [j \in 1..W |-> <<nd[i + j]>>]
            Target(i) == [j \in 1..H |-> nd[i + W + j]]
        IN  /\ splitIdx * testSplit[2] <= total * (testSplit[2] - testSplit[1])
            /\ (splitIdx + 1) * testSplit[2] > total * (testSplit[2] - testSplit[1])
            /\ train = [k \in 1..splitIdx |-> k - 1]
            /\ test = [k \in 1..(total - splitIdx) |-> splitIdx + k - 1]
            /\ \A a \in 1..Len(train), b \in 1..Len(test) : test[b] >= train[a]
            /\ Val(dataLoader.X_train).values = [k \in 1..Len(train) |-> Window(train[k])]
            /\ Val(dataLoader.y_train).values = [k \in 1..Len(train) |-> Target(train[k])]
            /\ Val(dataLoader.X_test).values = [k \in 1..Len(test) |-> Window(test[k])]
            /\ Val(dataLoader.y_test).values = [k \in 1..Len(test) |-> Target(test[k])]

\* C11 witness: a split with at least two train samples followed by at least
\* two test samples.
C11_Witness ==
    /\ last.op = "prepareData" /\ last.error = ""
    /\ Len(dataLoader.trainIndices) >= 2 /\ Len(dataLoader.testIndices) >= 2
    /\ dataLoader.testIndices[1] = Len(dataLoader.trainIndices)

\* C12: normalization round-trips.  With the min / max that normalizeReturns
\* fixed (range = max - min, or 1 when max = min), every return x of the series
\* is normalized to (x - min) / range and denormalize of that value is x, the
\* case of all returns equal included.  (Numbers are exact here: equality
\* stands for equality up to the rounding of the floating-point operations.)
C12_NormalizationRoundTrip ==
    (last.op = "prepareData" /\ last.error = "") =>
        LET mn == Val(dataLoader.min)
            mx == Val(dataLoader.max)
            range == IF mx = mn THEN One ELSE NumSub(mx, mn)
            nd == Val(dataLoader.normalizedData)
        IN  /\ Len(nd) = Len(dataLoader.returns)
            /\ \A i \in 1..Len(dataLoader.returns) :
                  LET x == dataLoader.returns[i]
                  IN  /\ nd[i] = NumDiv(NumSub(x, mn), range)
                      /\ denormalize(dataLoader, nd[i]) = [value |-> x, error |-> ""]

\* C12 witness: a series normalized with max = min (all its returns equal).
C12_Witness ==
    /\ last.op = "prepareData" /\ last.error = ""
    /\ Len(dataLoader.returns) >= 2
    /\ Val(dataLoader.max) = Val(dataLoader.min)
    /\ Val(dataLoader.normalizedData)[1] = Zero

\* C13: every series parseCSV accepts (at least 65 valid points) yields at
\* least one sample: prepareData with windowSize 60 and horizon 5 does not
\* fail on it.
C13_AcceptedSeriesHasSample ==
    ( /\ last.op = "prepareData"
      /\ last.args[1] = DefaultWindowSize /\ last.args[2] = DefaultHorizon
      /\ ~IsNull(dataLoader.data) /\ Len(Val(dataLoader.data)) >= MinPoints ) =>
        last.error = ""

\* C17: for a series of exactly 64 points, prepareData with windowSize 60 and
\* horizon 5 fails with the not-enough-data error and creates no tensor.
C17_TooShortForOneWindow ==
    ( /\ last.op = "prepareData"
      /\ last.args[1] = 60 /\ last.args[2] = 5
      /\ ~IsNull(dataLoader.data) /\ Len(Val(dataLoader.data)) = 64 ) =>
        /\ last.error = "Not enough data"
        /\ tf.nextId - 1 = last.result.tensorsBefore
        /\ tf.live \subseteq 1..last.result.tensorsBefore

\* C17 witness: prepareData(60, 5) has failed on a series of 64 points.
C17_Witness ==
    /\ last.op = "prepareData" /\ last.error = "Not enough data"
    /\ last.args[1] = 60 /\ last.args[2] = 5
    /\ ~IsNull(dataLoader.data) /\ Len(Val(dataLoader.data)) = 64
    /\ last.result.numReturns = 63

\* C14: a parseCSV call that fails with the insufficient-data error leaves
\* the data, the returns and the dateLabels of the DataLoader as they were
\* before the call.
C14_FailedParseKeepsState ==
    [][ (CallParseCSV /\ last'.error = "Insufficient data") =>
            /\ dataLoader'.data = dataLoader.data
            /\ dataLoader'.returns = dataLoader.returns
            /\ dataLoader'.dateLabels = dataLoader.dateLabels ]_vars

\* C15: the price series parseCSV stores has every price > 0, is sorted
\* strictly ascending by date and holds no two points with the same date,
\* whatever the input text (repeated dates, rows out of date order).
C15_SortedNoDuplicateDates ==
    ~IsNull(dataLoader.data) =>
        LET data == Val(dataLoader.data)
        IN  /\ \A i \in 1..Len(data) : NumGreater(data[i].price, Zero)
            /\ \A i, j \in 1..Len(data) :
                  i < j => /\ NumLess(parseDate(data[i].date), parseDate(data[j].date))
                           /\ data[i].date # data[j].date

\* C16: a data line whose price is non-numeric (parseFloat finds no number
\* at its start) or <= 0 is skipped without aborting the parse: parseCSV
\* stores the data, dateLabels and returns it stores for the same text with
\* that line removed, and raises an error only if it does so for that text.
C16_IsBadPriceLine(rawLine) ==
    LET parts == Split(Trim(rawLine), ";")
    IN  /\ Len(parts) >= 2
        /\ LET price == ParseFloat(Trim(parts[2]))
           IN  IsNaN(price) \/ ~NumGreater(price, Zero)

\* the data lines with a bad price, by text
C16_BadPriceLines ==
    [name \in ContentNames |->
        { k \in 2..Len(ContentText(name)) : C16_IsBadPriceLine(ContentText(name)[k]) }]

\* the parse of every text with one of these lines removed
C16_ParsedWithout ==
    [name \in ContentNames |->
        [k \in C16_BadPriceLines[name] |-> ParseOutcomes(RemoveAt(ContentText(name), k))]]

C16_BadPriceLineSkipped ==
    last.op = "parseCSV" =>
        LET name == last.args[1]
        IN  \A k \in C16_BadPriceLines[name] :
                    \E p \in C16_ParsedWithout[name][k] :
                        /\ dataLoader.data = Some(p.parsedData)
                        /\ dataLoader.dateLabels = p.dateLabels
                        /\ dataLoader.returns = p.returns
                        /\ last.error = IF Len(p.parsedData) < MinPoints
                                        THEN "Insufficient data" ELSE ""

\* C16 witness: a text holding the row bad-date;abc among its rows has been
\* parsed without error, all its valid rows stored.
C16_Witness ==
    /\ last.op = "parseCSV" /\ last.error = ""
    /\ \E k \in 2..Len(ContentText(last.args[1])) :
          ContentText(last.args[1])[k] = Row(BadDate, Abc)
    /\ Len(Val(dataLoader.data)) = 67

\* C18: GRUModel.train called while no regressor is built (model is null)
\* fails with the model-not-built error and starts no fit, in both variants
\* of GRUModel.
C18_TrainNeedsBuiltModel ==
    [][ (ApiTrain /\ IsNull(model.model)) =>
            /\ last'.op = "train" /\ last'.error = "Model not built"
            /\ runs' = runs
            /\ IsNull(model'.model) ]_vars

\* C19: the prices displayPredictions shows are compounded from the last
\* price of the stored (date-sorted) series: price[k] = price[k-1] *
\* (1 + return[k]) for every forecast day k, price[0] being that last price;
\* for a last price of 100 and returns [0.01, -0.02] they are [101, 98.98].
C19_CompoundedPrices ==
    last.op = "displayPredictions" =>
        LET data == Val(dataLoader.data)
            returns == Val(app.predictions)
            cards == last.result
            Price(k) == IF k = 0 THEN data[Len(data)].price ELSE cards[k].newPrice
        IN  /\ Len(cards) = Len(returns)
            /\ \A i \in 1..(Len(data) - 1) :
                  NumLess(parseDate(data[i].date), parseDate(data[Len(data)].date))
            /\ \A k \in 1..Len(cards) :
                  /\ cards[k].day = k
                  /\ cards[k].newPrice = NumMul(Price(k - 1), NumAdd(One, returns[k]))
            /\ (Price(0) = Int2Num(100) /\ returns = <<Norm(1, 100), Norm(-2, 100)>>) =>
                  /\ cards[1].newPrice = Int2Num(101)
                  /\ cards[2].newPrice = Norm(9898, 100)

\* C19 witness: the projection from 100 with returns [0.01, -0.02] has
\* been shown.
C19_Witness ==
    /\ last.op = "displayPredictions"
    /\ Val(dataLoader.data)[Len(Val(dataLoader.data))].price = Int2Num(100)
    /\ Val(app.predictions) = <<Norm(1, 100), Norm(-2, 100)>>
    /\ Len(last.result) = 2

C21_BuildLeavesUntrained ==
    [][ ApiBuildModel => (model'.model = Some(builds') /\ ~model'.isTrained) ]_vars

\* C22: when the app's onTrainEnd runs, the engine is already marked
\* trained: the evaluate call inside onTrainEnd does not fail with 'Model not
\* trained', and a run whose fit reached onTrainEnd is not reported as a
\* training error for it.
C22_TrainedWhenTrainEndRuns ==
    (last.op = "train" /\ last.args = <<"app">> /\ last.result.endCalls >= 1) =>
        last.error # "Model not trained"

\* C23: once every training run has ended, with or without an error,
\* isTraining is false again (so the next train request is accepted), also
\* when the seven-argument call of trainModel drives the train of variant B.
C23_IsTrainingClearedAtEnd ==
    runs = <<>> => ~app.isTraining

\* C24: when a train call of E epochs returns normally, the caller's
\* onEpochEnd has been invoked once for each of the E epochs, all before
\* onTrainEnd.
C24_EpochEndPerEpoch ==
    (last.op = "train" /\ last.error = "") =>
        last.result.epochCalls = last.result.epochs

\* C25: while a training run is in flight, the dataset tensors it was given
\* are live and the engine holds the model it fits; a reload takes effect
\* only while isTraining is false.
C25_NoDisposeDuringTraining ==
    /\ \A i \in 1..Len(runs) :
          /\ runs[i].tensors \subseteq tf.live
          /\ model.model = Some(runs[i].build)
    /\ last.op = "loadDataCalled" => ~app.isTraining

\* C26: failures of the regressor are surfaced: predict never returns an
\* all-zero forecast in place of an error, and evaluate on a built and trained
\* engine never returns the placeholder metrics in place of an error.
C26_RegressorFailuresSurfaced ==
    /\ last.op = "predict" =>
          /\ last.result # Some([i \in 1..model.predictionHorizon |-> Zero])
          /\ IsNull(last.result) = (last.error # "")
    /\ (last.op = "evaluate" /\ last.args.trained /\ last.args.built) =>
          /\ last.result # "default"
          /\ (last.result = "") = (last.error # "")

\* C27: after parseCSV, dateLabels[i] is the date of data[i] for every index
\* i, also when the rows of the text are not in ascending date order.
C27_DateLabelsMatchData ==
    ~IsNull(dataLoader.data) =>
        /\ Len(dataLoader.dateLabels) = Len(Val(dataLoader.data))
        /\ \A i \in 1..Len(Val(dataLoader.data)) :
              dataLoader.dateLabels[i] = Val(dataLoader.data)[i].date

\* C28: prepareData puts floor(total * (1 - testSplit)) samples in train.
\* For a header plus 70 consecutively dated rows with strictly increasing
\* prices, parseCSV stores 70 points and 69 returns, and prepareData(60, 5,
\* 0.2) creates exactly 5 samples: 4 train and 1 test.  (Numbers are exact
\* here: 1 - 0.2 is 4/5.)
C28_SeventyRowsFourTrainOneTest ==
    /\ (last.op = "parseCSV" /\ last.args = <<"LongUp">>) =>
          /\ last.error = ""
          /\ Len(Val(dataLoader.data)) = 70
          /\ Len(dataLoader.returns) = 69
          /\ \A i \in 1..69 : NumLess(Val(dataLoader.data)[i].price, Val(dataLoader.data)[i + 1].price)
    /\ (last.op = "prepareData" /\ last.error = "") =>
          LET total == last.result.numReturns - last.args[1] - last.args[2] + 1
              testSplit == last.args[3]
              nTrain == Val(dataLoader.X_train).shape[1]
          IN  /\ nTrain * testSplit[2] <= total * (testSplit[2] - testSplit[1])
              /\ total * (testSplit[2] - testSplit[1]) < (nTrain + 1) * testSplit[2]
              /\ Val(dataLoader.X_test).shape[1] = total - nTrain
    /\ (last.op = "prepareData" /\ last.args = <<60, 5, Norm(1, 5)>>
          /\ last.result.numReturns = 69) =>
          /\ last.error = ""
          /\ Val(dataLoader.X_train).shape = <<4, 60, 1>>
          /\ Val(dataLoader.y_train).shape = <<4, 5>>
          /\ Val(dataLoader.X_test).shape = <<1, 60, 1>>
          /\ Val(dataLoader.y_test).shape = <<1, 5>>
          /\ Len(Val(dataLoader.X_train).values) = 4
          /\ Len(Val(dataLoader.X_test).values) = 1
          /\ dataLoader.trainIndices = <<0, 1, 2, 3>>
          /\ dataLoader.testIndices = <<4>>

\* C28 witness: prepareData(60, 5, 0.2) has run on the 69 returns of the 70
\* rising rows.
C28_Witness ==
    /\ last.op = "prepareData" /\ last.args = <<60, 5, Norm(1, 5)>>
    /\ last.error = ""
    /\ ~IsNull(dataLoader.data)
    /\ Some(dataLoader.returns) = Some(ComputeReturns(Val(dataLoader.data)))
    /\ Len(Val(dataLoader.data)) = 70
    /\ Val(dataLoader.data)[1].price = Int2Num(100)
    /\ Val(dataLoader.data)[70].price = Int2Num(169)
    /\ Len(Val(dataLoader.X_train).values) = 4

\* C29: GRUModel.train called with train windows / targets of zero samples
\* fails with a no-training-data error and starts no fitting: no fit ever
\* runs on a train tensor of zero samples.
C29_NoFitOnEmptyTrainingSet ==
    \A i \in 1..Len(runs) : runs[i].samples > 0

\* C30: a prediction needs a window of exactly windowSize normalized
\* returns: when makePredictions is called on a trained model and the
\* normalized history is absent (never made, or disposed) or shorter than
\* windowSize, it fails with the insufficient-history error 'Not enough data
\* for prediction', and the model is only ever run on a history that supplies
\* windowSize values.
C30_InsufficientHistoryRejected ==
    [][ ClickPredict =>
          LET short == \/ IsNull(dataLoader.normalizedData)
                       \/ Len(Val(dataLoader.normalizedData)) < model.windowSize
          IN  /\ (model.isTrained /\ short) =>
                    (last'.op = "makePredictions"
                       /\ last'.error = "Not enough data for prediction")
              /\ Len(preds') > Len(preds) => ~short ]_vars

====
